---- MODULE Spec2Model ----
(***************************************************************************)
(* Image-similarity demo: the add-to-collection and compare-image route    *)
(* handlers, the embedding utility with its model cache, the batch script  *)
(* and the Qdrant collections they share.                                  *)
(*                                                                         *)
(* A handler runs as a chain of steps, one per awaited call that touches   *)
(* shared state (the vector store, the model cache, the clock); the code   *)
(* between two awaits runs atomically with the step that precedes it.      *)
(* A vector is represented by its length, whether all entries are numbers, *)
(* and the image and network it was computed from.                         *)
(*                                                                         *)
(* Spec is the handlers and the batch script over one store; SpecScore is  *)
(* compare-image against collections that hold reference images; SpecBatch *)
(* is the page's processCollection next to the batch script; SpecCosine is *)
(* the browser-side cosineSimilarity over small integer vectors.           *)
(***************************************************************************)
EXTENDS Integers, Sequences, FiniteSets, TLC

VARIABLES store, modelCache, loadsStarted, now, req, script, faults, page, calc

vars == <<store, modelCache, loadsStarted, now, req, script, faults, page, calc>>

----------------------------------------------------------------------------
(* Bounds of the model *)

MaxRequests == 2

MaxTime == 1

MaxFaults == 1

NumImages == 2

NumScriptFiles == 2

SharedScriptFiles == 1

NumPageFiles == 2

\* what the user does on the page: selections of collection files, clicks on
\* Process, selections of a target image, clicks on Compare
MaxSelections == 2
MaxRuns == 2
MaxTargets == 2
MaxCompares == 2

VecLen == 2

MaxNegEntry == 1

MaxEntry == 2

----------------------------------------------------------------------------
(* Program constants *)

MobileNetVectorSize == 1280

ClipVectorSize == 768

VECTOR_SIZE == 1280

ScriptVectorSize == 1024

MobileNetV2OutputSize == 1280

MobileNetV1OutputSize == 1024

ClipAltOutputSize == 512

MaxFileSize == 10 * 1024 * 1024

MobileNetCollection == "mobilenet_embeddings"

ClipCollection == "clip_embeddings"

COLLECTION_NAME == "image_vector_embeddings_20250310"

CollectionNames == {MobileNetCollection, ClipCollection, COLLECTION_NAME}

Reqs == 1..MaxRequests

Images == 1..NumImages

Handlers == {"add", "addLegacy", "compare", "compareLegacy"}

\* formData.get("modelType"): absent (null), a known model, or another string
\* (one that is no key of getModelInfo's table but lower-cases to a cache key)
ModelTypes == {"null", "MobileNet", "CLIP", "mobilenet"}

\* Math.floor(Math.random() * 1000): the two ends of 0..999
RandomValues == {0, 999}

----------------------------------------------------------------------------
(* Request inputs *)

NoFile == [present |-> FALSE, img |-> 0, type |-> "none", size |-> 0, valid |-> FALSE]

File(i, t, s, v) == [present |-> TRUE, img |-> i, type |-> t, size |-> s, valid |-> v]

\* decodable images at the size limit, one corrupt image, one oversize image,
\* one upload that is not an image
Files ==
    {File(i, "image/jpeg", MaxFileSize, TRUE) : i \in Images}
    \cup {File(1, "image/jpeg", MaxFileSize, FALSE),
          File(1, "image/jpeg", MaxFileSize + 1, TRUE),
          File(1, "text/plain", MaxFileSize, FALSE)}

RequestFiles == Files \cup {NoFile}

----------------------------------------------------------------------------
(* Values *)

NoCollection == [exists |-> FALSE, size |-> 0, distance |-> "none", points |-> {}]

NoEmbedding == [len |-> 0, numeric |-> FALSE, img |-> 0, net |-> "none"]

NoId == <<"none", 0, 0>>

Point(id, vector, filename) == [id |-> id, vector |-> vector, filename |-> filename]

\* a point id the store takes as it is: an unsigned integer (a millisecond
\* timestamp, a directory index); "point_<ms>_<n>" is neither that nor a UUID
IsNumericId(id) == id[1] \in {"ms", "index"}

NoResp == [status |-> 0, error |-> "none", similarity |-> -1, id |-> NoId, filename |-> 0]

Call(op, coll, len) == [op |-> op, coll |-> coll, len |-> len]

\* mutant: an unknown modelType is given MobileNet's entry
getModelInfoDefaulting(modelType) ==
    CASE modelType = "CLIP" ->
           [defined |-> TRUE, collectionName |-> ClipCollection,
            vectorSize |-> ClipVectorSize]
      [] OTHER ->
           [defined |-> TRUE, collectionName |-> MobileNetCollection,
            vectorSize |-> MobileNetVectorSize]

\* mutant: CLIP is given MobileNet's collection
getModelInfoOneCollection(modelType) ==
    CASE modelType = "MobileNet" ->
           [defined |-> TRUE, collectionName |-> MobileNetCollection,
            vectorSize |-> MobileNetVectorSize]
      [] modelType = "CLIP" ->
           [defined |-> TRUE, collectionName |-> MobileNetCollection,
            vectorSize |-> ClipVectorSize]
      [] OTHER ->
           [defined |-> FALSE, collectionName |-> "undefined", vectorSize |-> 0]

\* getModelInfo(modelType): models[modelType], undefined for an unknown key
getModelInfo(modelType) ==
    CASE modelType = "MobileNet" ->
           [defined |-> TRUE, collectionName |-> MobileNetCollection,
            vectorSize |-> MobileNetVectorSize]
      [] modelType = "CLIP" ->
           [defined |-> TRUE, collectionName |-> ClipCollection,
            vectorSize |-> ClipVectorSize]
      [] OTHER ->
           [defined |-> FALSE, collectionName |-> "undefined", vectorSize |-> 0]

\* (formData.get("modelType") as EmbeddingModelType) || "MobileNet"
ModelTypeOf(field) == IF field = "null" THEN "MobileNet" ELSE field

\* the handler's local modelType: the legacy handlers read no modelType field
\* and call generateEmbedding with its default
LocalModelType(h, field) ==
    IF h \in {"addLegacy", "compareLegacy"} THEN "MobileNet" ELSE ModelTypeOf(field)

\* the upload as the handler sees it: only add-to-collection reads its type and size
LocalFile(h, f) ==
    IF h = "add" \/ ~f.present THEN f ELSE [f EXCEPT !.type = "unread", !.size = 0]

IsLegacy(h) == h \in {"addLegacy", "compareLegacy"}

IsAdd(h) == h \in {"add", "addLegacy"}

\* the model the handler embeds with: the legacy handlers pass no modelType
EffectiveModel(q) == q.modelType

\* the collection and size the handler works with
HandlerInfo(q) ==
    IF IsLegacy(q.handler)
    THEN [defined |-> TRUE, collectionName |-> COLLECTION_NAME, vectorSize |-> VECTOR_SIZE]
    ELSE getModelInfo(q.modelType)

\* modelType.toLowerCase()
CacheKey(modelType) ==
    CASE modelType = "MobileNet" -> "mobilenet"
      [] modelType = "CLIP" -> "clip"
      [] OTHER -> "mobilenet"

CacheKeys == {"mobilenet", "clip"}

----------------------------------------------------------------------------
(* The vector store (Qdrant), as the handlers use it *)

\* qdrant.getCollections().collections.some(c => c.name === name)
StoreExists(st, name) == st[name].exists

\* qdrant.createCollection(name, {vectors: {size, distance: "Cosine"}}):
\* rejected when a collection of that name exists
StoreCanCreate(st, name) == ~st[name].exists

StoreCreate(st, name, size) ==
    [st EXCEPT ![name] = [exists |-> TRUE, size |-> size, distance |-> "Cosine", points |-> {}]]

\* qdrant.deleteCollection(name)
StoreDelete(st, name) == [st EXCEPT ![name] = NoCollection]

\* mutant: the length of the vector is not compared with the collection's size
StoreAcceptsPointAnySize(st, name, point) ==
    /\ st[name].exists
    /\ point.vector.numeric

\* qdrant.upsert(name, {points: [point]}): rejected when the collection is
\* absent or the vector's length is not the collection's size
StoreAcceptsPoint(st, name, point) ==
    /\ st[name].exists
    /\ point.vector.len = st[name].size
    /\ point.vector.numeric

\* the point replaces the point of the same id, if any
StoreUpsert(st, name, point) ==
    [st EXCEPT ![name].points = {p \in @ : p.id # point.id} \cup {point}]

\* qdrant.search(name, {vector, limit: 1}): rejected when the collection is
\* absent or the query vector's length is not the collection's size
StoreCanSearch(st, name, vector) ==
    /\ st[name].exists
    /\ vector.len = st[name].size
    /\ vector.numeric

\* Cosine score in percent between two embeddings: 100 for the same image
\* under the same network, lower the further apart the images are
Score(q, v) ==
    IF q.net = v.net /\ q.img = v.img THEN 100
    ELSE IF q.img >= v.img THEN 90 - 10 * (q.img - v.img) ELSE 90 - 10 * (v.img - q.img)

\* limit: 1 in both compare-image handlers
SearchLimit == 1

\* mutant: the store answers with some point, not the best-scoring one
StoreSearchAny(st, name, vector) == st[name].points

\* the hits of a search with limit 1: the best-scoring point, if there is one
StoreSearchTop(st, name, vector) ==
    {p \in st[name].points : \A o \in st[name].points : Score(vector, o.vector) <= Score(vector, p.vector)}

----------------------------------------------------------------------------
(* Responses *)

Success(fields) == fields @@ [NoResp EXCEPT !.status = 200]

ErrorResp(status, msg) == [NoResp EXCEPT !.status = status, !.error = msg]

\* a request that has returned keeps its inputs, its response and the calls it made
Finish(q, resp) ==
    [q EXCEPT !.pc = "done", !.resp = resp, !.exists = FALSE, !.model = 0,
              !.embedding = NoEmbedding, !.pointId = NoId]

Set(r, q) == req' = [req EXCEPT ![r] = q]

Log(q, call) == [q EXCEPT !.calls = Append(@, call)]

----------------------------------------------------------------------------
(* Route handlers *)

IsImageType(t) == t = "image/jpeg"

\* generateEmbedding: CLIP goes to the hosted API, anything else to loadModel
EmbedEntry(q) ==
    [q EXCEPT !.pc = IF EffectiveModel(q) = "CLIP" THEN "clip" ELSE "loadModel"]

\* mutant: the exception leaves the handler, which returns no response
FailUnhandled(q, msg) == Finish(q, NoResp)

\* the catch of the handler: {error: message} with status 500
Fail(q, msg) == Finish(q, ErrorResp(500, msg))

\* mutant: the handler goes to the embedding without ensureCollection
AfterValidateSkipEnsure(q) == EmbedEntry(q)

\* add-to-collection: what follows the validation of the upload
AfterValidate(q) == [q EXCEPT !.pc = "getCollections"]

\* mutant: a file of exactly the limit is rejected as well
AddValidateSizeInclusive(q) ==
    IF ~q.file.present THEN Finish(q, ErrorResp(400, "No image file provided"))
    ELSE IF ~IsImageType(q.file.type) THEN Finish(q, ErrorResp(400, "Invalid file type"))
    ELSE IF q.file.size >= MaxFileSize THEN Finish(q, ErrorResp(400, "File size too large"))
    ELSE IF ~HandlerInfo(q).defined THEN Fail(q, "TypeError")
    ELSE AfterValidate(q)

\* add-to-collection: formData, the file checks, getModelInfo
AddValidate(q) ==
    IF ~q.file.present THEN Finish(q, ErrorResp(400, "No image file provided"))
    ELSE IF ~IsImageType(q.file.type) THEN Finish(q, ErrorResp(400, "Invalid file type"))
    ELSE IF q.file.size > MaxFileSize THEN Finish(q, ErrorResp(400, "File size too large"))
    ELSE IF ~HandlerInfo(q).defined THEN Fail(q, "TypeError")
    ELSE AfterValidate(q)

\* compare-image: formData, the file check, then generateEmbedding
CompareValidate(q) ==
    IF ~q.file.present THEN Finish(q, ErrorResp(400, "No image file provided"))
    ELSE EmbedEntry(q)

\* the handler's code up to its first call that leaves the handler
BeginStep(q) ==
    CASE q.handler = "add" -> AddValidate(q)
      [] q.handler = "addLegacy" -> [q EXCEPT !.pc = "getCollections"]
      [] OTHER -> CompareValidate(q)

\* what follows ensureCollection in the add-to-collection handlers
AfterEnsure(q) ==
    IF q.handler = "add" THEN EmbedEntry(q)
    ELSE IF ~q.file.present THEN Finish(q, ErrorResp(400, "No image file provided"))
    ELSE EmbedEntry(q)

\* ensureCollection after the listing: the branch on exists
AfterList(q, exists) ==
    IF exists
    THEN IF q.handler = "add" THEN [q EXCEPT !.exists = TRUE, !.pc = "getCollection"]
         ELSE AfterEnsure([q EXCEPT !.exists = TRUE])
    ELSE [q EXCEPT !.exists = FALSE, !.pc = "createCollection"]

\* mutant: the length of the embedding is not compared with vectorSize
EmbeddingErrorNoSizeCheck(q, emb) ==
    IF ~emb.numeric THEN "Embedding contains non-numeric or NaN values" ELSE "none"

\* the checks of the embedding before the upsert
EmbeddingError(q, emb) ==
    IF emb.len # HandlerInfo(q).vectorSize THEN "Embedding size mismatch"
    ELSE IF ~emb.numeric THEN "Embedding contains non-numeric or NaN values"
    ELSE "none"

\* the id of the new point: point_<Date.now()>_<random> or Date.now()
NewPointId(q, t, rnd) ==
    IF q.handler = "add" THEN <<"point", t, rnd>> ELSE <<"ms", t, 0>>

\* Date.now() where the handler builds its point: a millisecond count that
\* is at least the last one read; now is the last value read
DateNow(q) == IF IsAdd(q.handler) THEN now..MaxTime ELSE {now}

\* the handler's code after generateEmbedding returned emb
AfterEmbedding(q, emb, t, rnd) ==
    CASE q.handler = "add" ->
           IF EmbeddingError(q, emb) # "none" THEN Fail(q, EmbeddingError(q, emb))
           ELSE [q EXCEPT !.embedding = emb, !.pointId = NewPointId(q, t, rnd), !.pc = "upsert"]
      [] q.handler = "addLegacy" ->
           [q EXCEPT !.embedding = emb, !.pointId = NewPointId(q, t, rnd), !.pc = "upsert"]
      [] OTHER ->
           IF ~HandlerInfo(q).defined THEN Fail(q, "TypeError")
           ELSE [q EXCEPT !.embedding = emb, !.pc = "search"]

\* the success response of add-to-collection
AddSuccess(q) ==
    IF q.handler = "add" THEN Success([id |-> q.pointId]) ELSE Success([id |-> NoId])

\* the response of compare-image for the hits of the search
CompareResponse(q, hits) ==
    IF q.handler = "compare"
    THEN Success([similarity |-> IF hits = {} THEN 0 ELSE Score(q.embedding, (CHOOSE p \in hits : TRUE).vector)])
    ELSE Success([similarity |-> IF hits = {} THEN 0 ELSE Score(q.embedding, (CHOOSE p \in hits : TRUE).vector),
                  filename |-> IF hits = {} THEN 0 ELSE (CHOOSE p \in hits : TRUE).filename])

\* an outcome of a remote call: ok, or a failure of the network or the service
Outcome(ok) ==
    /\ ok \/ faults < MaxFaults
    /\ faults' = IF ok THEN faults ELSE faults + 1

\* a request to one of the handlers hs arrives
BeginWith(r, hs) ==
    /\ req[r].pc = "idle"
    /\ IF r = 1 THEN TRUE ELSE req[r - 1].pc # "idle"
    /\ page.pc = "idle"
    /\ \E h \in hs, f \in RequestFiles, m \in ModelTypes :
          /\ Set(r, BeginStep([req[r] EXCEPT !.handler = h, !.file = LocalFile(h, f),
                                               !.modelType = LocalModelType(h, m)]))
    /\ UNCHANGED <<store, modelCache, loadsStarted, now, script, faults, page, calc>>

Begin(r) == BeginWith(r, Handlers)

GetCollections(r) ==
    /\ req[r].pc = "getCollections"
    /\ \E ok \in BOOLEAN :
          /\ Outcome(ok)
          /\ LET name == HandlerInfo(req[r]).collectionName
                 q == Log(req[r], Call("getCollections", name, 0))
             IN  Set(r, IF ok THEN AfterList(q, StoreExists(store, name))
                        ELSE Fail(q, "store unavailable"))
    /\ UNCHANGED <<store, modelCache, loadsStarted, now, script, page, calc>>

GetCollection(r) ==
    /\ req[r].pc = "getCollection"
    /\ \E ok \in BOOLEAN :
          /\ Outcome(ok)
          /\ LET name == HandlerInfo(req[r]).collectionName
                 q == Log(req[r], Call("getCollection", name, 0))
             IN  Set(r, IF ~ok THEN Fail(q, "store unavailable")
                        ELSE IF ~StoreExists(store, name) THEN Fail(q, "Not Found")
                        ELSE AfterEnsure(q))
    /\ UNCHANGED <<store, modelCache, loadsStarted, now, script, page, calc>>

CreateCollection(r) ==
    /\ req[r].pc = "createCollection"
    /\ \E ok \in BOOLEAN :
          /\ Outcome(ok)
          /\ LET info == HandlerInfo(req[r])
                 q == Log(req[r], Call("createCollection", info.collectionName, info.vectorSize))
             IN  IF ok /\ StoreCanCreate(store, info.collectionName)
                 THEN /\ store' = StoreCreate(store, info.collectionName, info.vectorSize)
                      /\ Set(r, AfterEnsure(q))
                 ELSE /\ store' = store
                      /\ Set(r, Fail(q, IF ok THEN "Conflict" ELSE "store unavailable"))
    /\ UNCHANGED <<modelCache, loadsStarted, now, script, page, calc>>

\* loadModel: the cache lookup; on a miss setBackend and, for MobileNet, the load
LoadModel(r) ==
    /\ req[r].pc = "loadModel"
    /\ LET m == EffectiveModel(req[r])
           key == CacheKey(m)
           q == Log(req[r], Call("loadModel", key, 0))
       IN  IF modelCache[key] # 0
           THEN /\ Set(r, [q EXCEPT !.model = modelCache[key], !.pc = "infer"])
                /\ UNCHANGED loadsStarted
           ELSE IF m = "MobileNet"
           THEN /\ Set(r, [q EXCEPT !.pc = "loading"])
                /\ loadsStarted' = [loadsStarted EXCEPT ![key] = @ + 1]
           ELSE /\ Set(r, [q EXCEPT !.model = 0, !.pc = "infer"])
                /\ UNCHANGED loadsStarted
    /\ UNCHANGED <<store, modelCache, now, script, faults, page, calc>>

\* modelCache[cacheKey] = await mobilenet.load(...): the instance this request loaded
LoadDone(r) ==
    /\ req[r].pc = "loading"
    /\ \E ok \in BOOLEAN :
          /\ Outcome(ok)
          /\ IF ok
             THEN /\ modelCache' = [modelCache EXCEPT ![CacheKey(EffectiveModel(req[r]))] = r]
                  /\ Set(r, [req[r] EXCEPT !.model = r, !.pc = "infer"])
             ELSE /\ modelCache' = modelCache
                  /\ Set(r, Fail(req[r], "model unavailable"))
    /\ UNCHANGED <<store, loadsStarted, now, script, page, calc>>

\* sharp, tensor3d, model.infer, then the handler's code up to its next call
Infer(r) ==
    /\ req[r].pc = "infer"
    /\ \E rnd \in RandomValues, t \in DateNow(req[r]) :
          LET q == req[r]
              emb == [len |-> MobileNetV2OutputSize, numeric |-> TRUE,
                      img |-> q.file.img, net |-> "mobilenet_v2"]
              thrown == Log(q, Call("embed", "mobilenet", 0))
              returned == Log(q, Call("embed", "mobilenet", emb.len))
          IN  IF ~q.file.valid THEN Set(r, Fail(thrown, "unsupported image format")) /\ now' = now
              ELSE IF q.model = 0 THEN Set(r, Fail(thrown, "TypeError")) /\ now' = now
              ELSE Set(r, AfterEmbedding(returned, emb, t, rnd)) /\ now' = t
    /\ UNCHANGED <<store, modelCache, loadsStarted, script, faults, page, calc>>

\* what replicate.run may hand back for a decodable image: output.embedding of
\* the declared or of another length, or something that is no list of numbers
ClipOutputs(file) ==
    {[len |-> ClipVectorSize, numeric |-> TRUE, img |-> file.img, net |-> "clip"],
     [len |-> ClipAltOutputSize, numeric |-> TRUE, img |-> file.img, net |-> "clip"],
     [len |-> ClipVectorSize, numeric |-> FALSE, img |-> file.img, net |-> "clip"]}

\* getClipEmbedding, then the handler's code up to its next call
ClipRun(r) ==
    /\ req[r].pc = "clip"
    /\ \E ok \in BOOLEAN, rnd \in RandomValues, t \in DateNow(req[r]) :
          /\ Outcome(ok)
          /\ LET q == req[r]
                 thrown == Log(q, Call("embed", "clip", 0))
             IN  IF ~ok THEN Set(r, Fail(thrown, "model unavailable")) /\ now' = now
                 ELSE IF ~q.file.valid THEN Set(r, Fail(thrown, "Prediction failed")) /\ now' = now
                 ELSE /\ \E emb \in ClipOutputs(q.file) :
                            Set(r, AfterEmbedding(Log(q, Call("embed", "clip", emb.len)), emb, t, rnd))
                      /\ now' = t
    /\ UNCHANGED <<store, modelCache, loadsStarted, script, page, calc>>

\* whether the store takes the request's upsert
UpsertAccepted(q, ok, idOk) ==
    /\ ok
    /\ IsNumericId(q.pointId) \/ idOk
    /\ StoreAcceptsPoint(store, HandlerInfo(q).collectionName,
                         Point(q.pointId, q.embedding, q.file.img))

\* mutant: the store writes a point although it answers with a rejection
UpsertAppliedThoughRejected(q, ok, idOk, lost) ==
    /\ ok \/ lost
    /\ StoreExists(store, HandlerInfo(q).collectionName)

\* whether the store has written the point when the call returns or throws:
\* a call that fails in transit (a timeout, a reset connection) may have
\* reached the store, which then has taken the point it would have accepted
UpsertApplied(q, ok, idOk, lost) ==
    /\ ok \/ lost
    /\ UpsertAccepted(q, TRUE, idOk)

Upsert(r) ==
    /\ req[r].pc = "upsert"
    /\ \E ok \in BOOLEAN, idOk \in BOOLEAN, lost \in BOOLEAN :
          /\ Outcome(ok)
          /\ lost => ~ok
          /\ LET name == HandlerInfo(req[r]).collectionName
                 point == Point(req[r].pointId, req[r].embedding, req[r].file.img)
                 q == Log(req[r], Call("upsert", name, point.vector.len))
             IN  IF UpsertAccepted(req[r], ok, idOk)
                 THEN /\ store' = StoreUpsert(store, name, point)
                      /\ Set(r, Finish(q, AddSuccess(q)))
                 ELSE /\ store' = IF UpsertApplied(req[r], ok, idOk, lost)
                                  THEN StoreUpsert(store, name, point) ELSE store
                      /\ Set(r, IF q.handler = "add"
                                THEN [q EXCEPT !.pc = IF ok THEN "upsertRejected" ELSE "upsertFailed"]
                                ELSE Fail(q, IF ok THEN "Bad Request" ELSE "store unavailable"))
    /\ UNCHANGED <<modelCache, loadsStarted, now, script, page, calc>>

\* the catch of the upsert: getCollection(...).catch(e => e.message), then rethrow
UpsertFailed(r) ==
    /\ req[r].pc \in {"upsertRejected", "upsertFailed"}
    /\ \E ok \in BOOLEAN :
          /\ Outcome(ok)
          /\ LET name == HandlerInfo(req[r]).collectionName
                 q == Log(req[r], Call("getCollection", name, 0))
             IN  Set(r, Fail(q, IF req[r].pc = "upsertRejected" THEN "Bad Request"
                                ELSE "store unavailable"))
    /\ UNCHANGED <<store, modelCache, loadsStarted, now, script, page, calc>>

Search(r) ==
    /\ req[r].pc = "search"
    /\ \E ok \in BOOLEAN :
          /\ Outcome(ok)
          /\ LET name == HandlerInfo(req[r]).collectionName
                 q == Log(req[r], Call("search", name, req[r].embedding.len))
             IN  IF ~ok THEN Set(r, Fail(q, "store unavailable"))
                 ELSE IF ~StoreCanSearch(store, name, q.embedding)
                 THEN Set(r, Fail(q, IF StoreExists(store, name) THEN "Bad Request" ELSE "Not Found"))
                 ELSE IF store[name].points = {}
                 THEN Set(r, Finish([q EXCEPT !.hits = 0], CompareResponse(q, {})))
                 ELSE \E p \in StoreSearchTop(store, name, q.embedding) :
                         Set(r, Finish([q EXCEPT !.hits = SearchLimit], CompareResponse(q, {p})))
    /\ UNCHANGED <<store, modelCache, loadsStarted, now, script, page, calc>>

----------------------------------------------------------------------------
(* scripts/generateImageEmbeddings.js *)

\* the loop's step to the next file of the directory
ScriptNext(s) ==
    IF s.index >= s.files
    THEN [s EXCEPT !.pc = "done", !.embedding = NoEmbedding]
    ELSE [s EXCEPT !.pc = "embed", !.index = @ + 1, !.embedding = NoEmbedding]

\* mobilenet.load(); a failure reaches the outer catch and exits
ScriptLoad ==
    /\ script.pc = "idle"
    /\ \E ok \in BOOLEAN :
          /\ Outcome(ok)
          /\ script' = [script EXCEPT !.pc = IF ok THEN "delete" ELSE "failed"]
    /\ UNCHANGED <<store, modelCache, loadsStarted, now, req, page, calc>>

\* deleteCollection in its own try: a failure is ignored
ScriptDelete ==
    /\ script.pc = "delete"
    /\ \E ok \in BOOLEAN :
          /\ Outcome(ok)
          /\ store' = IF ok THEN StoreDelete(store, COLLECTION_NAME) ELSE store
    /\ script' = [script EXCEPT !.pc = "create"]
    /\ UNCHANGED <<modelCache, loadsStarted, now, req, page, calc>>

\* createCollection with size 1024, then readdir
ScriptCreate ==
    /\ script.pc = "create"
    /\ \E ok \in BOOLEAN :
          /\ Outcome(ok)
          /\ IF ok /\ StoreCanCreate(store, COLLECTION_NAME)
             THEN /\ store' = StoreCreate(store, COLLECTION_NAME, ScriptVectorSize)
                  /\ script' = ScriptNext([script EXCEPT !.index = 0])
             ELSE /\ store' = store
                  /\ script' = [script EXCEPT !.pc = "failed"]
    /\ UNCHANGED <<modelCache, loadsStarted, now, req, page, calc>>

\* preprocessImage and generateEmbedding of file number index; a file that
\* cannot be decoded is skipped
ScriptEmbed ==
    /\ script.pc = "embed"
    /\ \E valid \in BOOLEAN :
          LET s == [script EXCEPT !.attempted = Append(@, script.index)]
          IN  script' = IF valid
                        THEN [s EXCEPT !.pc = "upsert",
                                       !.embedding = [len |-> MobileNetV1OutputSize, numeric |-> TRUE,
                                                      img |-> script.index, net |-> "mobilenet_v1"]]
                        ELSE ScriptNext(s)
    /\ UNCHANGED <<store, modelCache, loadsStarted, now, req, faults, page, calc>>

\* upsert of the point with id index + 1 (index counts from 0 in the script);
\* a failure is logged and the loop continues
ScriptUpsert ==
    /\ script.pc = "upsert"
    /\ \E ok \in BOOLEAN :
          /\ Outcome(ok)
          /\ LET point == Point(<<"index", script.index, 0>>, script.embedding, script.index)
             IN  IF ok /\ StoreAcceptsPoint(store, COLLECTION_NAME, point)
                 THEN /\ store' = StoreUpsert(store, COLLECTION_NAME, point)
                      /\ script' = ScriptNext(script)
                 ELSE /\ store' = store
                      /\ script' = ScriptNext(script)
    /\ UNCHANGED <<modelCache, loadsStarted, now, req, page, calc>>

----------------------------------------------------------------------------
(* The system *)

\* the script before it starts, with n image files in its directory
ScriptIdle(n) ==
    [pc |-> "idle", files |-> n, index |-> 0, embedding |-> NoEmbedding, attempted |-> <<>>]

IdleRequest ==
    [pc |-> "idle", handler |-> "none", file |-> NoFile, modelType |-> "none",
     exists |-> FALSE, model |-> 0, embedding |-> NoEmbedding, pointId |-> NoId,
     hits |-> 0, calls |-> <<>>, resp |-> NoResp]

----------------------------------------------------------------------------
(* app/page.tsx *)

\* the images picked in the file input: decodable ones and one that is not
PageFiles ==
    {File(i, "image/jpeg", MaxFileSize, TRUE) : i \in Images}
    \cup {File(1, "image/jpeg", MaxFileSize, FALSE)}

\* useState<number | null>(null): the score is null, a number, or whatever
\* else setSimilarityScore was given
NullScore == [kind |-> "null", value |-> 0]

\* the page as it is first rendered. files, index and pc are the closure and
\* position of the running processCollection, selected is collectionImages;
\* about[i] is the file whose upload statuses[i] was last set for, and scoreOf
\* the target image whose comparison set similarityScore
PageIdle ==
    [pc |-> "idle", handler |-> "none", files |-> <<>>, index |-> 0,
     statuses |-> <<>>, attempted |-> <<>>,
     selected |-> <<>>, about |-> <<>>, selections |-> 0, runs |-> 0,
     targetImage |-> NoFile, similarityScore |-> NullScore, scoreOf |-> NoFile,
     comparing |-> "no", compared |-> NoFile, compares |-> 0, targets |-> 0]

\* handleCollectionUpload: the picked files, every status "pending"
Selected(pg, fs) ==
    [pg EXCEPT !.selected = fs,
               !.statuses = [i \in DOMAIN fs |-> "pending"],
               !.about = [i \in DOMAIN fs |-> NoFile]]

\* processCollection is called: it runs over the collectionImages of the
\* render in which the button was clicked
Started(pg) ==
    [pg EXCEPT !.pc = "ready", !.files = pg.selected, !.index = 0, !.attempted = <<>>]

\* the page with the files fs picked and processCollection called; handler
\* is the version of the route that serves /api/add-to-collection
PageLoaded(h, fs) == Started(Selected([PageIdle EXCEPT !.handler = h], fs))

isProcessing(pg) == pg.pc \in {"ready", "waiting", "rejected"}

isComparing(pg) == pg.comparing # "no"

\* the status shown for a response of the route
StatusOf(resp) == IF resp.status = 200 THEN "complete" ELSE "error"

\* setUploadStatuses(prev => prev.map((status, idx) => idx === i ? {...status,
\* status} : status)): the entry at i of the current list, if it has one
SetStatus(pg, i, status) ==
    [pg EXCEPT !.statuses = [j \in DOMAIN @ |-> IF j = i THEN status ELSE @[j]],
               !.about = [j \in DOMAIN @ |-> IF j = i THEN pg.files[i] ELSE @[j]]]

\* mutant: a failed image ends the loop
AfterImageStopOnError(pg, status) ==
    [SetStatus(pg, pg.index, status) EXCEPT !.pc = IF status = "error" THEN "done" ELSE "ready"]

\* the end of one pass of the loop body: the status is set in the try or in
\* its catch, and the loop goes on to i + 1
AfterImage(pg, status) ==
    [SetStatus(pg, pg.index, status) EXCEPT !.pc = "ready"]

\* one pass of the for loop up to its await: status "processing", then the
\* fetch of the route with the image and no modelType; the fetch may reject
PageFetch ==
    /\ page.pc = "ready"
    /\ page.index < Len(page.files)
    /\ req[1].pc = "idle"
    /\ \E ok \in BOOLEAN :
          /\ Outcome(ok)
          /\ LET i == page.index + 1
                 h == page.handler
                 pg == SetStatus([page EXCEPT !.index = i, !.attempted = Append(@, i)],
                                 i, "processing")
             IN  IF ok
                 THEN /\ page' = [pg EXCEPT !.pc = "waiting"]
                      /\ Set(1, BeginStep([IdleRequest EXCEPT !.handler = h,
                                              !.file = LocalFile(h, page.files[i]),
                                              !.modelType = LocalModelType(h, "null")]))
                 ELSE /\ page' = [pg EXCEPT !.pc = "rejected"]
                      /\ req' = req
    /\ UNCHANGED <<store, modelCache, loadsStarted, now, script, calc>>

\* the fetch settles: "complete" when response.ok, "error" when it is not or
\* when the fetch rejected
PageReceive ==
    /\ \/ page.pc = "waiting" /\ req[1].pc = "done"
       \/ page.pc = "rejected"
    /\ page' = AfterImage(page, IF page.pc = "rejected" THEN "error" ELSE StatusOf(req[1].resp))
    /\ Set(1, IdleRequest)
    /\ UNCHANGED <<store, modelCache, loadsStarted, now, script, faults, calc>>

\* the loop condition fails: finally setIsProcessing(false)
PageFinish ==
    /\ page.pc = "ready"
    /\ page.index >= Len(page.files)
    /\ page' = [page EXCEPT !.pc = "done"]
    /\ UNCHANGED <<store, modelCache, loadsStarted, now, req, script, faults, calc>>

\* the lists the user picks in the collection file input: every image, an
\* undecodable file before an image, and the last image alone
PageSelections ==
    {[i \in 1..NumPageFiles |-> File(i, "image/jpeg", MaxFileSize, TRUE)],
     <<File(1, "image/jpeg", MaxFileSize, FALSE), File(1, "image/jpeg", MaxFileSize, TRUE)>>,
     <<File(NumPageFiles, "image/jpeg", MaxFileSize, TRUE)>>}

\* the files the user picks in the target file input
TargetFiles ==
    {File(1, "image/jpeg", MaxFileSize, ok) : ok \in BOOLEAN}

\* handleCollectionUpload: the input is never disabled, so the user may pick
\* files while processCollection runs
PageSelect ==
    /\ page.selections < MaxSelections
    /\ \E fs \in PageSelections :
          page' = [Selected(page, fs) EXCEPT !.selections = @ + 1]
    /\ UNCHANGED <<store, modelCache, loadsStarted, now, req, script, faults, calc>>

\* mutant: the Process button is never disabled
ProcessButtonAlwaysEnabled(pg) == Len(pg.statuses) > 0

\* the Process button is rendered when there are statuses and is disabled
\* while isProcessing
ProcessButtonEnabled(pg) == Len(pg.statuses) > 0 /\ ~isProcessing(pg)

\* a click on the Process button: processCollection sets isProcessing and
\* enters its loop
PageStart ==
    /\ ProcessButtonEnabled(page)
    /\ page.runs < MaxRuns
    /\ page' = [Started(page) EXCEPT !.runs = @ + 1]
    /\ UNCHANGED <<store, modelCache, loadsStarted, now, req, script, faults, calc>>

\* handleTargetImageUpload: the new target image, and the score reset to null
TargetSelect ==
    /\ page.targets < MaxTargets
    /\ \E f \in TargetFiles :
          page' = [page EXCEPT !.targetImage = f, !.similarityScore = NullScore,
                               !.scoreOf = NoFile, !.targets = @ + 1]
    /\ UNCHANGED <<store, modelCache, loadsStarted, now, req, script, faults, calc>>

\* the Compare button is rendered when there is a target preview and is
\* disabled while isComparing
CompareButtonEnabled(pg) == pg.targetImage # NoFile /\ ~isComparing(pg)

\* the version of /api/compare-image deployed with a version of
\* /api/add-to-collection
CompareHandler(h) == IF h = "add" THEN "compare" ELSE "compareLegacy"

\* handleCompare up to its await: isComparing set, the target image of this
\* render posted with no modelType; the fetch may reject
CompareFetch ==
    /\ CompareButtonEnabled(page)
    /\ page.compares < MaxCompares
    /\ req[2].pc = "idle"
    /\ \E ok \in BOOLEAN :
          /\ Outcome(ok)
          /\ LET h == CompareHandler(page.handler)
                 pg == [page EXCEPT !.compared = page.targetImage, !.compares = @ + 1]
             IN  IF ok
                 THEN /\ page' = [pg EXCEPT !.comparing = "waiting"]
                      /\ Set(2, BeginStep([IdleRequest EXCEPT !.handler = h,
                                              !.file = LocalFile(h, page.targetImage),
                                              !.modelType = LocalModelType(h, "null")]))
                 ELSE /\ page' = [pg EXCEPT !.comparing = "rejected"]
                      /\ req' = req
    /\ UNCHANGED <<store, modelCache, loadsStarted, now, script, calc>>

\* data.similarity of the parsed body: the number of a success body, and
\* undefined for an error body, which has no such field
SimilarityOf(resp) ==
    IF resp.status = 200 THEN [kind |-> "number", value |-> resp.similarity]
                         ELSE [kind |-> "undefined", value |-> 0]

\* the comparison settles: setSimilarityScore(data.similarity) whatever the
\* status of the response, nothing but a log line when the fetch rejected,
\* and finally setIsComparing(false)
CompareReceive ==
    /\ \/ page.comparing = "waiting" /\ req[2].pc = "done"
       \/ page.comparing = "rejected"
    /\ page' = IF page.comparing = "rejected"
               THEN [page EXCEPT !.comparing = "no"]
               ELSE [page EXCEPT !.comparing = "no",
                                 !.similarityScore = SimilarityOf(req[2].resp),
                                 !.scoreOf = page.compared]
    /\ Set(2, IdleRequest)
    /\ UNCHANGED <<store, modelCache, loadsStarted, now, script, faults, calc>>

----------------------------------------------------------------------------
(* cosineSimilarity of the browser-side comparison *)

Vectors == [1..VecLen -> (0 - MaxNegEntry)..MaxEntry]

\* the sum of f[1..n]
RECURSIVE SumTo(_, _)
SumTo(f, n) == IF n = 0 THEN 0 ELSE f[n] + SumTo(f, n - 1)

\* dotProduct / (Math.sqrt(normA) * Math.sqrt(normB)), kept exact as the
\* numerator and the square of the denominator; 0 / 0 is NaN
cosineSimilarity(a, b) ==
    LET dotProduct == SumTo([i \in DOMAIN a |-> a[i] * b[i]], Len(a))
        normA == SumTo([i \in DOMAIN a |-> a[i] * a[i]], Len(a))
        normB == SumTo([i \in DOMAIN a |-> b[i] * b[i]], Len(a))
    IN  [nan |-> normA * normB = 0, num |-> dotProduct, den2 |-> normA * normB]

NoResult == [nan |-> FALSE, num |-> 0, den2 |-> 0]

CalcIdle == [a |-> <<>>, b |-> <<>>, result |-> NoResult, done |-> FALSE]

\* handleCompare: the similarity of the target's embedding and a stored one
ComputeSimilarity ==
    /\ ~calc.done
    /\ calc.a # <<>>
    /\ calc' = [calc EXCEPT !.result = cosineSimilarity(calc.a, calc.b), !.done = TRUE]
    /\ UNCHANGED <<store, modelCache, loadsStarted, now, req, script, faults, page>>

----------------------------------------------------------------------------
(* Initial states and next-state relations *)

Init ==
    /\ store = [n \in CollectionNames |-> NoCollection]
    /\ modelCache = [k \in CacheKeys |-> 0]
    /\ loadsStarted = [k \in CacheKeys |-> 0]
    /\ now = 0
    /\ req = [r \in Reqs |-> IdleRequest]
    /\ script = ScriptIdle(SharedScriptFiles)
    /\ faults = 0
    /\ page = PageIdle
    /\ calc = CalcIdle

Next ==
    \/ \E r \in Reqs : Begin(r)
    \/ \E r \in Reqs : GetCollections(r)
    \/ \E r \in Reqs : GetCollection(r)
    \/ \E r \in Reqs : CreateCollection(r)
    \/ \E r \in Reqs : LoadModel(r)
    \/ \E r \in Reqs : LoadDone(r)
    \/ \E r \in Reqs : Infer(r)
    \/ \E r \in Reqs : ClipRun(r)
    \/ \E r \in Reqs : Upsert(r)
    \/ \E r \in Reqs : UpsertFailed(r)
    \/ \E r \in Reqs : Search(r)
    \/ ScriptLoad
    \/ ScriptDelete
    \/ ScriptCreate
    \/ ScriptEmbed
    \/ ScriptUpsert

Spec == Init /\ [][Next]_vars

\* the reference collections as add-to-collection leaves them after the
\* images of S have been ingested, each at its own millisecond
SeededImage(name, S, net, size, tag) ==
    [exists |-> TRUE, size |-> size, distance |-> "Cosine",
     points |-> {Point(<<tag, i - 1, 0>>,
                       [len |-> size, numeric |-> TRUE, img |-> i, net |-> net], i) : i \in S}]

SeededStore(S) ==
    [n \in CollectionNames |->
        CASE n = MobileNetCollection -> SeededImage(n, S, "mobilenet_v2", MobileNetVectorSize, "point")
          [] n = ClipCollection -> SeededImage(n, S, "clip", ClipVectorSize, "point")
          [] OTHER -> SeededImage(n, S, "mobilenet_v2", VECTOR_SIZE, "ms")]

\* compare-image requests against collections that hold reference images
InitScore ==
    /\ store \in {SeededStore(S) : S \in SUBSET Images}
    /\ modelCache = [k \in CacheKeys |-> 0]
    /\ loadsStarted = [k \in CacheKeys |-> 0]
    /\ now = MaxTime
    /\ req = [r \in Reqs |-> IdleRequest]
    /\ script = ScriptIdle(SharedScriptFiles)
    /\ faults = 0
    /\ page = PageIdle
    /\ calc = CalcIdle

BeginCompare(r) == BeginWith(r, {"compare", "compareLegacy"})

NextScore ==
    \/ \E r \in Reqs : BeginCompare(r)
    \/ \E r \in Reqs : LoadModel(r)
    \/ \E r \in Reqs : LoadDone(r)
    \/ \E r \in Reqs : Infer(r)
    \/ \E r \in Reqs : ClipRun(r)
    \/ \E r \in Reqs : Search(r)

SpecScore == InitScore /\ [][NextScore]_vars

\* the page's processCollection over the picked files, next to the batch script
InitBatch ==
    /\ store = [n \in CollectionNames |-> NoCollection]
    /\ modelCache = [k \in CacheKeys |-> 0]
    /\ loadsStarted = [k \in CacheKeys |-> 0]
    /\ now = 0
    /\ req = [r \in Reqs |-> IdleRequest]
    /\ script = ScriptIdle(NumScriptFiles)
    /\ faults = 0
    /\ page \in {PageLoaded(h, fs) : h \in {"add", "addLegacy"},
                                     fs \in [1..NumPageFiles -> PageFiles]}
    /\ calc = CalcIdle

NextBatch ==
    \/ PageFetch
    \/ PageReceive
    \/ PageFinish
    \/ \E r \in Reqs : GetCollections(r)
    \/ \E r \in Reqs : GetCollection(r)
    \/ \E r \in Reqs : CreateCollection(r)
    \/ \E r \in Reqs : LoadModel(r)
    \/ \E r \in Reqs : LoadDone(r)
    \/ \E r \in Reqs : Infer(r)
    \/ \E r \in Reqs : Upsert(r)
    \/ \E r \in Reqs : UpsertFailed(r)
    \/ ScriptLoad
    \/ ScriptDelete
    \/ ScriptCreate
    \/ ScriptEmbed
    \/ ScriptUpsert

SpecBatch == InitBatch /\ [][NextBatch]_vars

(* The page in the browser and the two routes it calls *)

InitPage ==
    /\ store = [n \in CollectionNames |-> NoCollection]
    /\ modelCache = [k \in CacheKeys |-> 0]
    /\ loadsStarted = [k \in CacheKeys |-> 0]
    /\ now = 0
    /\ req = [r \in Reqs |-> IdleRequest]
    /\ script = ScriptIdle(SharedScriptFiles)
    /\ faults = 0
    /\ page \in {[PageIdle EXCEPT !.handler = h] : h \in {"add", "addLegacy"}}
    /\ calc = CalcIdle

\* a step of the route that serves request r
RouteStep(r) ==
    \/ GetCollections(r)
    \/ GetCollection(r)
    \/ CreateCollection(r)
    \/ LoadModel(r)
    \/ LoadDone(r)
    \/ Infer(r)
    \/ Upsert(r)
    \/ UpsertFailed(r)
    \/ Search(r)

\* the user works in one section of the page at a time: no click on Process
\* during a comparison, no click on Compare during a run
NextPage ==
    \/ PageSelect
    \/ ~isComparing(page) /\ PageStart
    \/ PageFetch
    \/ PageReceive
    \/ PageFinish
    \/ TargetSelect
    \/ ~isProcessing(page) /\ CompareFetch
    \/ CompareReceive
    \/ \E r \in Reqs : RouteStep(r)

SpecPage == InitPage /\ [][NextPage]_vars

\* the page of a user who picks the collection files once and the target
\* image once
InitPageOnce ==
    /\ store = [n \in CollectionNames |-> NoCollection]
    /\ modelCache = [k \in CacheKeys |-> 0]
    /\ loadsStarted = [k \in CacheKeys |-> 0]
    /\ now = 0
    /\ req = [r \in Reqs |-> IdleRequest]
    /\ script = ScriptIdle(SharedScriptFiles)
    /\ faults = 0
    /\ page \in {[PageIdle EXCEPT !.handler = h, !.selections = MaxSelections - 1,
                                   !.targets = MaxTargets - 1] : h \in {"add", "addLegacy"}}
    /\ calc = CalcIdle

\* every fetch settles: the routes and the continuations of the page's
\* awaits keep running
SpecPageFair ==
    /\ InitPageOnce
    /\ [][NextPage]_vars
    /\ \A r \in Reqs : WF_vars(RouteStep(r))
    /\ WF_vars(PageFetch)
    /\ WF_vars(PageReceive)
    /\ WF_vars(PageFinish)
    /\ WF_vars(CompareReceive)

\* cosineSimilarity applied to every pair of bounded integer vectors
InitCosine ==
    /\ store = [n \in CollectionNames |-> NoCollection]
    /\ modelCache = [k \in CacheKeys |-> 0]
    /\ loadsStarted = [k \in CacheKeys |-> 0]
    /\ now = 0
    /\ req = [r \in Reqs |-> IdleRequest]
    /\ script = ScriptIdle(SharedScriptFiles)
    /\ faults = 0
    /\ page = PageIdle
    /\ calc \in {[CalcIdle EXCEPT !.a = a, !.b = b] : a \in Vectors, b \in Vectors}

NextCosine == ComputeSimilarity

SpecCosine == InitCosine /\ [][NextCosine]_vars

----------------------------------------------------------------------------
(* Properties *)

Ops(q) == {q.calls[i].op : i \in DOMAIN q.calls}

Done(q) == q.pc = "done"

Succeeded(q) == q.pc = "done" /\ q.resp.status = 200

Failed(q) == q.pc = "done" /\ q.resp.status >= 400

StoreOps == {"getCollections", "getCollection", "createCollection", "upsert", "search"}

EmbedOps == {"loadModel", "embed"}

\* C1: a compare-image request whose search found no point (the collection
\* is empty or absent) ends in an error response, never in success with
\* similarity 0.
C1_NoSilentZero ==
    \A r \in Reqs :
        (Done(req[r]) /\ ~IsAdd(req[r].handler) /\ "search" \in Ops(req[r]) /\ req[r].hits = 0)
            => /\ req[r].resp.status # 200
               /\ req[r].resp.similarity # 0

\* C2: in add-to-collection, once the embedder has returned an embedding
\* whose length is not the model's vectorSize, the request has ended in an
\* error response and has sent no upsert; every upsert sent carries a vector
\* of the declared vectorSize.
C2_NoUpsertOnSizeMismatch ==
    \A r \in Reqs :
        IsAdd(req[r].handler) =>
            \A i \in DOMAIN req[r].calls :
                LET c == req[r].calls[i]
                IN  /\ (c.op = "embed" /\ c.len # 0 /\ c.len # HandlerInfo(req[r]).vectorSize)
                        => (Failed(req[r]) /\ "upsert" \notin Ops(req[r]))
                    /\ c.op = "upsert" => c.len = HandlerInfo(req[r]).vectorSize

\* C2 witness: an add-to-collection request got an embedding of the wrong
\* length from the embedder and was answered with an error.
C2_Witness ==
    \E r \in Reqs :
        /\ req[r].handler = "add"
        /\ Failed(req[r])
        /\ \E i \in DOMAIN req[r].calls :
              /\ req[r].calls[i].op = "embed"
              /\ req[r].calls[i].len = ClipAltOutputSize
              /\ HandlerInfo(req[r]).vectorSize = ClipVectorSize

EnsureReturns(r) ==
    /\ IsAdd(req[r].handler)
    /\ req[r].pc \in {"getCollections", "getCollection", "createCollection"}
    /\ req'[r].pc \in {"loadModel", "clip"} \/ (req'[r].pc = "done" /\ req'[r].resp.status = 400)

\* C4: ensureCollection is idempotent: createCollection is issued only by a
\* call whose listing found the name absent, a call that finds the name
\* present changes nothing in the store, and when a call returns the
\* collection exists with the requested size and the Cosine metric.
C4_EnsureIdempotent ==
    [][\A r \in Reqs :
          LET info == HandlerInfo(req[r])
          IN  /\ (req[r].pc = "createCollection" /\ req'[r].pc # "createCollection")
                  => ~req[r].exists
              /\ (req[r].pc \in {"getCollections", "getCollection"} /\ req'[r] # req[r])
                  => store' = store
              /\ EnsureReturns(r)
                  => /\ store'[info.collectionName].exists
                     /\ store'[info.collectionName].size = info.vectorSize
                     /\ store'[info.collectionName].distance = "Cosine"]_vars

\* C5: when ensureCollection's listing finds the collection present with a
\* size other than the requested one, the request ends in an error response
\* and goes on to no embedding and no upsert.
C5_ConflictDetected ==
    [][\A r \in Reqs :
          LET info == HandlerInfo(req[r])
          IN  (/\ IsAdd(req[r].handler)
               /\ req[r].file.present
               /\ req[r].pc = "getCollections"
               /\ req'[r] # req[r]
               /\ store[info.collectionName].exists
               /\ store[info.collectionName].size # info.vectorSize)
                  => (req'[r].pc = "done" /\ req'[r].resp.status = 500)]_vars

\* the points of request q's collection that hold image img
RecordsOf(q, img) ==
    {p \in store[HandlerInfo(q).collectionName].points : p.filename = img}

\* C6: when the same image has been ingested twice with the same model (both
\* requests answered with success), the model's collection holds exactly one
\* record for it. (Stated for collections whose ids are unsigned integers,
\* which the store takes for certain.)
C6_IngestIdempotent ==
    \A r1, r2 \in Reqs :
        (/\ r1 # r2
         /\ Succeeded(req[r1]) /\ Succeeded(req[r2])
         /\ IsAdd(req[r1].handler)
         /\ req[r1].handler = req[r2].handler
         /\ req[r1].modelType = req[r2].modelType
         /\ req[r1].file.img = req[r2].file.img
         /\ \A p \in store[HandlerInfo(req[r1]).collectionName].points : IsNumericId(p.id)
         /\ script.pc = "idle")
            => Cardinality(RecordsOf(req[r1], req[r1].file.img)) = 1

\* C7: a point in a collection stays there unchanged (same id, vector and
\* payload) over every step of an add-to-collection or compare-image request.
\* (Stated for the points whose ids are unsigned integers, which the store
\* takes for certain.)
C7_RecordsImmutable ==
    [][script' = script =>
          \A n \in CollectionNames :
              {p \in store[n].points : IsNumericId(p.id)} \subseteq store'[n].points]_vars

\* C8: two add-to-collection requests with decodable images of the same
\* model, with no failure of the network or of a service, both end in success
\* and leave two records in the model's collection.
C8_ConcurrentIngestsIndependent ==
    \A r1, r2 \in Reqs :
        (/\ r1 # r2
         /\ Done(req[r1]) /\ Done(req[r2])
         /\ IsAdd(req[r1].handler)
         /\ req[r1].handler = req[r2].handler
         /\ req[r1].modelType = "MobileNet" /\ req[r2].modelType = "MobileNet"
         /\ \A r \in {r1, r2} :
               /\ req[r].file.present /\ req[r].file.valid
               /\ req[r].handler = "add" => (IsImageType(req[r].file.type) /\ req[r].file.size <= MaxFileSize)
         /\ faults = 0
         /\ script.pc = "idle")
            => /\ Succeeded(req[r1]) /\ Succeeded(req[r2])
               /\ Cardinality(store[HandlerInfo(req[r1]).collectionName].points) = 2

\* C9: while no load has failed, the load of a model is started at most once,
\* and a cached model instance is never evicted or replaced.
C9_ModelLoadedOnce ==
    [][\A k \in CacheKeys :
          /\ faults' = 0 => loadsStarted'[k] <= 1
          /\ modelCache[k] # 0 => modelCache'[k] = modelCache[k]]_vars

\* the positions of q's calls whose operation is in ops
Positions(q, ops) == {i \in DOMAIN q.calls : q.calls[i].op \in ops}

EmbeddingReturned(r) ==
    /\ req[r].pc \in {"infer", "clip"}
    /\ Len(req'[r].calls) = Len(req[r].calls) + 1
    /\ req'[r].calls[Len(req'[r].calls)].op = "embed"
    /\ req'[r].calls[Len(req'[r].calls)].len # 0

\* C11: when an add-to-collection request obtains a vector whose length is
\* not the declared size of its target collection, the write fails on the
\* client side: the request ends there with the size-mismatch error, and the
\* network call of the write (the upsert) is never sent.
C11_MismatchFailsBeforeUpsert ==
    [][\A r \in Reqs :
          LET name == HandlerInfo(req[r]).collectionName
              n == Len(req'[r].calls)
          IN  (/\ IsAdd(req[r].handler)
               /\ EmbeddingReturned(r)
               /\ store[name].exists
               /\ req'[r].calls[n].len # store[name].size)
                  => /\ Failed(req'[r])
                     /\ req'[r].resp.error = "Embedding size mismatch"
                     /\ Positions(req'[r], {"upsert"}) = {}]_vars

\* C12: the step that answers an add-to-collection request with success
\* carries in the response the id of the point the request upserted.
C12_SuccessReturnsRecordId ==
    [][\A r \in Reqs :
          (/\ IsAdd(req[r].handler)
           /\ req[r].pc = "upsert"
           /\ Succeeded(req'[r]))
              => /\ req'[r].resp.id = req[r].pointId
                 /\ \E p \in store'[HandlerInfo(req[r]).collectionName].points :
                       p.id = req'[r].resp.id]_vars

\* the highest score of vector v among the points of collection name
BestScore(name, v) ==
    CHOOSE x \in {Score(v, p.vector) : p \in store[name].points} :
        \A p \in store[name].points : Score(v, p.vector) <= x

\* C13: a compare-image search of a collection that holds points returns one
\* hit, and the similarity of the success response is the highest score of
\* the query vector among all points of the model's collection.
C13_SimilarityIsTopScore ==
    [][\A r \in Reqs :
          LET name == HandlerInfo(req[r]).collectionName
          IN  (/\ req[r].pc = "search"
               /\ Succeeded(req'[r])
               /\ store[name].points # {})
                  => /\ req'[r].hits = 1
                     /\ req'[r].resp.similarity = BestScore(name, req[r].embedding)]_vars

\* C13 witness: a compare-image request was answered with the score of the
\* stored copy of its image, out of a collection that holds two images.
C13_Witness ==
    \E r \in Reqs :
        /\ ~IsAdd(req[r].handler)
        /\ Succeeded(req[r])
        /\ req[r].hits = 1
        /\ Cardinality(store[HandlerInfo(req[r]).collectionName].points) = 2
        /\ req[r].resp.similarity = 100

\* a step of the handler that serves request r
HandlerStep(r) ==
    \/ GetCollections(r) \/ GetCollection(r) \/ CreateCollection(r)
    \/ LoadModel(r) \/ LoadDone(r) \/ Infer(r) \/ ClipRun(r)
    \/ Upsert(r) \/ UpsertFailed(r) \/ Search(r)

\* a response of the handlers: the success JSON, or {error} with 400 or 500
WellFormed(resp) ==
    \/ resp.status = 200 /\ resp.error = "none"
    \/ resp.status \in {400, 500} /\ resp.error # "none"

\* C14: a request that has returned has one well-formed response (success,
\* or an error message with status 400 or 500) which never changes again; a
\* request that has not returned can take its next step whatever the embedder
\* and the store do, and makes at most seven calls, so that it does return.
C14_OneStructuredResponse ==
    /\ [](\A r \in Reqs :
            /\ Done(req[r]) => WellFormed(req[r].resp)
            /\ ~Done(req[r]) => req[r].resp = NoResp
            /\ req[r].pc \notin {"idle", "done"} => ENABLED HandlerStep(r)
            /\ Len(req[r].calls) <= 7)
    /\ [][\A r \in Reqs : Done(req[r]) => req'[r] = req[r]]_vars

\* C14 witness: one request was answered with an error after its image could
\* not be decoded by the embedder, another after a call to the store failed.
C14_Witness ==
    \E r1, r2 \in Reqs :
        /\ Failed(req[r1]) /\ req[r1].resp.error = "unsupported image format"
        /\ Failed(req[r2]) /\ req[r2].resp.error = "store unavailable"

\* what went wrong, for the failures the three classes are about
FailureClass(msg) ==
    CASE msg \in {"No image file provided", "Invalid file type", "File size too large",
                  "unsupported image format", "Prediction failed"} -> "invalid image"
      [] msg \in {"store unavailable", "model unavailable"} -> "unavailable"
      [] msg = "Not Found" -> "no reference data"
      [] OTHER -> "other"

\* C15: two requests that failed for reasons of different classes (the image
\* is invalid, the reference set is missing, a service is unavailable) were
\* answered differently in what the response is structured by: the handlers'
\* error responses carry a status and a message and no class, so the status
\* differs.
C15_FailureClassesDistinguished ==
    \A r1, r2 \in Reqs :
        (/\ Failed(req[r1]) /\ Failed(req[r2])
         /\ FailureClass(req[r1].resp.error) # "other"
         /\ FailureClass(req[r2].resp.error) # "other"
         /\ FailureClass(req[r1].resp.error) # FailureClass(req[r2].resp.error))
            => req[r1].resp.status # req[r2].resp.status

\* C16: a request that surfaced a terminal error after a call to the
\* embedding backend or to the vector store failed in transit had retried a
\* call: somewhere in its calls the same call was made twice in a row.
C16_TransientFailureRetried ==
    \A r \in Reqs :
        (Failed(req[r]) /\ FailureClass(req[r].resp.error) = "unavailable")
            => \E i \in DOMAIN req[r].calls :
                  i + 1 \in DOMAIN req[r].calls /\ req[r].calls[i] = req[r].calls[i + 1]

\* the records of every collection
Records(st) == [n \in CollectionNames |-> st[n].points]

\* C17 as stated: when an add-to-collection request has ended in an error
\* response and nothing else has written (no other request has begun, the
\* batch script has not run), no collection holds a record. (Stated for the
\* records whose ids are unsigned integers, which the store takes for
\* certain.)
C17_FailedIngestLeavesNoRecord ==
    \A r \in Reqs :
        (/\ IsAdd(req[r].handler)
         /\ Failed(req[r])
         /\ \A o \in Reqs \ {r} : req[o].pc = "idle"
         /\ script.pc = "idle")
            => \A n \in CollectionNames : \A p \in store[n].points : ~IsNumericId(p.id)

\* C17 amended: the records change only in the upsert step of an
\* add-to-collection request, by exactly the request's complete point (its
\* id, its whole vector of the collection's size, its filename); a request
\* that ends in an error for any other reason (validation, the embedder,
\* ensureCollection, a rejection by the store) leaves the records as they
\* were, and the only error after which the record may be there is an upsert
\* call that failed in transit.
C17_FailedIngestLeavesNoPartialRecord ==
    [][\A r \in Reqs :
          (req'[r] # req[r] /\ Records(store') # Records(store))
              => LET name == HandlerInfo(req[r]).collectionName
                     point == Point(req[r].pointId, req[r].embedding, req[r].file.img)
                 IN  /\ IsAdd(req[r].handler)
                     /\ req[r].pc = "upsert"
                     /\ Records(store') =
                           [Records(store) EXCEPT ![name] = {p \in @ : p.id # point.id} \cup {point}]
                     /\ point.vector.len = store[name].size
                     /\ point.vector.numeric
                     /\ Succeeded(req'[r]) \/ faults' = faults + 1]_vars

\* C17 witness: an add-to-collection request was answered with an error
\* after its upsert failed in transit, and its record is in the collection.
C17_Witness ==
    \E r \in Reqs :
        /\ IsAdd(req[r].handler)
        /\ Failed(req[r])
        /\ req[r].resp.error = "store unavailable"
        /\ "upsert" \in Ops(req[r])
        /\ \A o \in Reqs \ {r} : req[o].pc = "idle"
        /\ script.pc = "idle"
        /\ \E p \in store[HandlerInfo(req[r]).collectionName].points :
              p.filename = req[r].file.img

\* the value is 1: a positive numerator equal to the denominator
EqualsOne(x) == ~x.nan /\ x.num > 0 /\ x.num * x.num = x.den2

\* C18: cosineSimilarity(v, v) is 1 for every vector v, the all-zero vector
\* included.
C18_SelfSimilarityIsOne ==
    (calc.done /\ calc.a = calc.b) => EqualsOne(calc.result)

\* the networks whose vectors a collection is meant for
NetsOf(name) ==
    CASE name = MobileNetCollection -> {"mobilenet_v2"}
      [] name = ClipCollection -> {"clip"}
      [] OTHER -> {"mobilenet_v1", "mobilenet_v2"}

\* the collections named in q's calls of operation op
CollectionsOf(q, op) == {q.calls[i].coll : i \in Positions(q, {op})}

\* C19: every collection holds records of one model only (no CLIP record
\* next to a MobileNet record); a compare-image request searches the
\* collection that add-to-collection of the same version writes for the same
\* modelType; and a search that succeeds has compared the query vector only
\* with records of the network that produced the query vector.
C19_SameModelOnly ==
    /\ [](/\ \A n \in CollectionNames :
                /\ \A p \in store[n].points : p.vector.net \in NetsOf(n)
                /\ \A p, o \in store[n].points : p.vector.net = o.vector.net
          /\ \A r1, r2 \in Reqs :
                (/\ IsAdd(req[r1].handler) /\ ~IsAdd(req[r2].handler)
                 /\ IsLegacy(req[r1].handler) = IsLegacy(req[r2].handler)
                 /\ req[r1].modelType = req[r2].modelType)
                    => \A a \in CollectionsOf(req[r1], "upsert"),
                          b \in CollectionsOf(req[r2], "search") : a = b)
    /\ [][\A r \in Reqs :
             (req[r].pc = "search" /\ Succeeded(req'[r]))
                 => \A p \in store[HandlerInfo(req[r]).collectionName].points :
                       p.vector.net = req[r].embedding.net]_vars

\* C19 witness: an image was ingested with CLIP, and a compare-image request
\* with CLIP found it.
C19_Witness ==
    \E r1, r2 \in Reqs :
        /\ req[r1].handler = "add" /\ req[r1].modelType = "CLIP" /\ Succeeded(req[r1])
        /\ req[r2].handler = "compare" /\ req[r2].modelType = "CLIP" /\ Succeeded(req[r2])
        /\ req[r2].hits = 1
        /\ req[r2].resp.similarity = 100

\* the list 1, 2, ..., each index once and in order
InOrder(seq) == \A i \in DOMAIN seq : seq[i] = i

\* C20: the batch script and the page's processCollection attempt every
\* image of their list exactly once, in list order and one at a time, and go
\* on after an image that failed: once an image has been attempted, the loop
\* ends only when every image has been attempted.
C20_BatchContinuesAfterFailure ==
    /\ InOrder(script.attempted)
    /\ Len(script.attempted) \in {script.index - 1, script.index} \cap (0..script.files)
    /\ script.pc = "upsert" => Len(script.attempted) = script.index
    /\ (script.pc \in {"done", "failed"} /\ script.attempted # <<>>)
          => Len(script.attempted) = script.files
    /\ InOrder(page.attempted)
    /\ Len(page.attempted) = page.index
    /\ page.pc = "done"
          => /\ Len(page.attempted) = Len(page.files)
             /\ \A i \in DOMAIN page.files : page.statuses[i] \in {"complete", "error"}
    /\ \A i \in DOMAIN page.statuses :
          /\ i < page.index => page.statuses[i] \in {"complete", "error"}
          /\ i > page.index => page.statuses[i] = "pending"
          /\ page.statuses[i] = "processing"
                => (i = page.index /\ page.pc \in {"waiting", "rejected"})
    /\ page.pc = "waiting" <=> req[1].pc # "idle"
    /\ \A r \in Reqs \ {1} : req[r].pc = "idle"

\* C20 witness: the page and the script have both gone through their lists;
\* each failed on its first image and processed its second.
C20_Witness ==
    /\ page.pc = "done"
    /\ page.statuses = <<"error", "complete">>
    /\ script.pc = "done"
    /\ script.attempted = <<1, 2>>
    /\ {p.id : p \in store[COLLECTION_NAME].points} = {<<"index", 2, 0>>}

C22_WritersAgreeOnSize ==
    [][\A r \in Reqs :
            (/\ req[r].handler = "addLegacy"
             /\ req[r].pc = "upsert"
             /\ req'[r].pc # "upsert"
             /\ req[r].embedding.numeric
             /\ store[COLLECTION_NAME].exists
             /\ script.pc \notin {"idle", "delete", "create", "failed"}
             /\ faults' = faults)
                => Succeeded(req'[r])]_vars

\* C23: an add-to-collection request that was rejected with status 400 has
\* made no call outside the handler: no listing or creation of a collection,
\* no upsert, no model load and no embedding.
C23_RejectionHasNoEffect ==
    \A r \in Reqs :
        (/\ IsAdd(req[r].handler)
         /\ Done(req[r])
         /\ req[r].resp.status = 400)
            => req[r].calls = <<>>

----------------------------------------------------------------------------
\* C25: within one run of processCollection the status at an index changes
\* only from pending to processing and from processing to complete or error,
\* and when a request of the run returns, the status of its file becomes
\* complete exactly when the response is ok.
StatusMoves ==
    {<<"pending", "processing">>, <<"processing", "complete">>, <<"processing", "error">>}

C25_StatusLifecycle ==
    [][(isProcessing(page) /\ page'.runs = page.runs) =>
          /\ \A i \in DOMAIN page.statuses \cap DOMAIN page'.statuses :
                \/ page'.statuses[i] = page.statuses[i]
                \/ <<page.statuses[i], page'.statuses[i]>> \in StatusMoves
          /\ (page.pc = "waiting" /\ page'.pc = "ready") =>
                /\ page.index \in DOMAIN page'.statuses
                /\ page'.statuses[page.index] = StatusOf(req[1].resp)
                /\ page'.about[page.index] = page.files[page.index]]_vars

----------------------------------------------------------------------------
\* C26: in every state uploadStatuses has one entry for each selected
\* collection image, and an entry that is not pending was set for the upload
\* of the selected image at its index, also after a selection made while
\* processCollection runs.
C26_StatusDescribesSelectedFile ==
    /\ Len(page.statuses) = Len(page.selected)
    /\ \A i \in DOMAIN page.statuses :
          page.statuses[i] # "pending" => page.about[i] = page.selected[i]

----------------------------------------------------------------------------
\* C27: in every state similarityScore is null or a number; an error body
\* of compare-image or a rejected fetch never sets it to anything else.
C27_ScoreNullOrNumber ==
    page.similarityScore.kind \in {"null", "number"}

----------------------------------------------------------------------------
\* C28: in every state a numeric similarityScore was computed for the image
\* that is the current target image, and a step that changes the target image
\* leaves the score null.
C28_ScoreBelongsToTarget ==
    /\ [](page.similarityScore.kind = "number" => page.scoreOf = page.targetImage)
    /\ [][page'.targetImage # page.targetImage => page'.similarityScore = NullScore]_vars

----------------------------------------------------------------------------
\* C29: provided every fetch settles, a run of processCollection leads to
\* isProcessing false and a run of handleCompare leads to isComparing false,
\* whether the requests succeed, return an error or throw; and a run of either
\* operation starts only while its flag is false, so no second run of the
\* same operation starts during a run.
C29_FlagsReleased ==
    /\ isProcessing(page) ~> ~isProcessing(page)
    /\ isComparing(page) ~> ~isComparing(page)
    /\ [][/\ page'.runs # page.runs => ~isProcessing(page)
          /\ page'.compares # page.compares => ~isComparing(page)]_vars

\* C29 witness: two runs of processCollection, one with an image that ended
\* in error, and two comparisons are over and both flags are false.
C29_Witness ==
    /\ page.runs = MaxRuns
    /\ page.compares = MaxCompares
    /\ ~isProcessing(page)
    /\ ~isComparing(page)
    /\ \E i \in DOMAIN page.statuses : page.statuses[i] = "error"
    /\ \E i \in DOMAIN page.statuses : page.statuses[i] = "complete"

====
